---- MODULE Spec2Model ----
(***************************************************************************)
(* Model of src/lib/event-bridge.ts.                                       *)
(*                                                                         *)
(* RemoteEventBridgeImpl (the remote queue: post / poll, the coalesced     *)
(* wake microtask and the per-poll timeout callback) and EventBridge (the  *)
(* host poll loop racing a cancellation signal, its teardown and           *)
(* dispose()).                                                             *)
(*                                                                         *)
(* Two specifications share the variables:                                 *)
(*   Spec       the whole bridge: the only caller of poll is the           *)
(*              EventBridge loop, through handle.evaluate;                 *)
(*   QueueSpec  one RemoteEventBridgeImpl on its own, with post and poll   *)
(*              called directly by any code of the remote context.         *)
(* The order in which the scheduler runs queued callbacks (the wake        *)
(* microtask, a timeout callback, an evaluate request) is left open: every *)
(* queued callback is a step that may run next.                            *)
(***************************************************************************)
EXTENDS Integers, Sequences, FiniteSets, TLC

\* ---- bounds -------------------------------------------------------------
MaxPosts == 3
MaxPolls == 3
MaxDispose == 2

VARIABLES
    \* RemoteEventBridgeImpl fields and the callbacks it has queued
    events,          \* this.events
    waiter,          \* this._waiter: 0 is null, otherwise the id of the poll whose closure it is
    deferredNotify,  \* this._deferredNotify
    wakesQueued,     \* number of queueMicrotask callbacks queued by post and not yet run
    timers,          \* ids of the polls whose setTimeout is armed
    waiterThrew,     \* a waiter closure threw 'waiter resumed with no events'
    remoteAlive,     \* the remote context (page / worker) still exists
    \* every poll() call made so far, in call order
    polls,
    \* history of post() calls, in call order
    posted,
    \* EventBridge
    pc,              \* position of the _worker async function
    curPoll,         \* id of the poll of the current Promise.race, 0 before the first
    raceResult,      \* what Promise.race settled with
    cancelRequested, \* cancelSignal is resolved
    needsDispose,
    active,
    emitted,         \* events passed to emit('event', ...), in order
    disposeEmits,    \* number of emit('dispose') calls
    releaseAttempts, \* number of handle.dispose() calls
    releaseResult,   \* "none", or how the handle.dispose() call settled: "ok" / "failed"
    listenerThrew,   \* an 'event' listener threw out of emit
    workerOutcome,   \* settlement of this._worker
    disposeCalls,    \* number of dispose() calls made
    disposePending,  \* dispose() calls awaiting this._worker
    disposeResolved, \* dispose() calls whose promise fulfilled
    disposeRejected, \* dispose() calls whose promise rejected
    \* history
    lateDisposeCalls, \* dispose() calls made after the 'dispose' notification
    disposedWhileRunning, \* a dispose() call was made while the loop was running
    postedAtDispose,  \* number of posts made when 'dispose' was emitted, -1 before
    \* launchChrome (src/lib/chrome-launcher.ts): the state of one launch
    launch

remoteVars == <<events, waiter, deferredNotify, wakesQueued, timers, waiterThrew,
                remoteAlive, polls, posted>>
hostVars == <<pc, curPoll, raceResult, cancelRequested, needsDispose, active, emitted,
              disposeEmits, releaseAttempts, releaseResult, listenerThrew, workerOutcome,
              disposeCalls, disposePending, disposeResolved, disposeRejected,
              lateDisposeCalls, disposedWhileRunning, postedAtDispose,
                   launch>>
vars == <<events, waiter, deferredNotify, wakesQueued, timers, waiterThrew,
          remoteAlive, polls, posted,
          pc, curPoll, raceResult, cancelRequested, needsDispose, active, emitted,
          disposeEmits, releaseAttempts, releaseResult, listenerThrew, workerOutcome,
          disposeCalls, disposePending, disposeResolved, disposeRejected,
          lateDisposeCalls, disposedWhileRunning, postedAtDispose,
                   launch>>

PollIds == 1..Len(polls)

\* The payload handed to post(): the code never inspects an event, so each call
\* is given a payload of its own (its position in the call order), which makes
\* a duplicated or reordered delivery visible.
NextEvent == Len(posted) + 1

\* A poll() call.  st: "sent" (evaluate request not yet run in the remote
\* context), "waiting" (its waiter is registered), "events" / "null" (promise
\* resolved with res / with null), "rejected" (executor threw).
\* by, at, resumed, settles and taken are bookkeeping: which path settled it,
\* how many posts had been made when it ran, how often its waiter closure ran,
\* how often resolve/reject ran, whether the host loop received its result.
NewPoll(state) ==
    [st |-> state, res |-> <<>>, by |-> "none", at |-> 0,
     resumed |-> 0, settles |-> 0, taken |-> FALSE]

IsPrefix(s, t) ==
    /\ Len(s) <= Len(t)
    /\ \A i \in 1..Len(s) : s[i] = t[i]

\* launchChrome once the executor of its promise has run: the process is
\* spawned, the startup timer is armed, the stderr 'data' and the 'exit'
\* listeners are attached and the scan buffer is empty.
\* kills / resolves / rejects count the calls of proc.kill, resolve and reject;
\* killedFirst records whether proc.kill had been called at every reject.
LaunchInit ==
    [timer |-> TRUE, dataListener |-> TRUE, exitListener |-> TRUE, ptr |-> 0,
     proc |-> "running", kills |-> 0, resolves |-> 0, rejects |-> 0,
     killedFirst |-> TRUE, outcome |-> "pending"]

----------------------------------------------------------------------------
\* RemoteEventBridgeImpl

Init ==
    /\ events = <<>>
    /\ waiter = 0
    /\ deferredNotify = FALSE
    /\ wakesQueued = 0
    /\ timers = {}
    /\ waiterThrew = FALSE
    /\ remoteAlive = TRUE
    /\ polls = <<>>
    /\ posted = <<>>
    /\ pc = "loop"
    /\ curPoll = 0
    /\ raceResult = "none"
    /\ cancelRequested = FALSE
    /\ needsDispose = TRUE
    /\ active = TRUE
    /\ emitted = <<>>
    /\ disposeEmits = 0
    /\ releaseAttempts = 0
    /\ releaseResult = "none"
    /\ listenerThrew = FALSE
    /\ workerOutcome = "pending"
    /\ disposeCalls = 0
    /\ disposePending = 0
    /\ disposeResolved = 0
    /\ disposeRejected = 0
    /\ lateDisposeCalls = 0
    /\ disposedWhileRunning = FALSE
    /\ postedAtDispose = -1
    /\ launch = LaunchInit

\* post that queues a microtask on every call made while a waiter is pending
PostNoCoalesce ==
    /\ remoteAlive
    /\ Len(posted) < MaxPosts
    /\ events' = Append(events, NextEvent)
    /\ posted' = Append(posted, NextEvent)
    /\ IF waiter # 0
         THEN /\ deferredNotify' = TRUE
              /\ wakesQueued' = wakesQueued + 1
         ELSE UNCHANGED <<deferredNotify, wakesQueued>>
    /\ UNCHANGED <<waiter, timers, waiterThrew, remoteAlive, polls>>
    /\ UNCHANGED hostVars

\* post(event)
Post ==
    /\ remoteAlive
    /\ Len(posted) < MaxPosts
    /\ events' = Append(events, NextEvent)
    /\ posted' = Append(posted, NextEvent)
    /\ IF waiter # 0 /\ ~deferredNotify
         THEN /\ deferredNotify' = TRUE
              /\ wakesQueued' = wakesQueued + 1
         ELSE UNCHANGED <<deferredNotify, wakesQueued>>
    /\ UNCHANGED <<waiter, timers, waiterThrew, remoteAlive, polls>>
    /\ UNCHANGED hostVars

\* poll executor that returns the queue without replacing it by a fresh one
PollBodyKeepsQueue(p, ps) ==
    IF events # <<>>
      THEN /\ polls' = [ps EXCEPT ![p] = [@ EXCEPT !.st = "events", !.res = events,
                                                   !.by = "immediate",
                                                   !.at = Len(posted),
                                                   !.settles = @ + 1]]
           /\ UNCHANGED <<events, waiter, timers>>
      ELSE IF waiter # 0
        THEN /\ polls' = [ps EXCEPT ![p] = [@ EXCEPT !.st = "rejected",
                                                     !.by = "contract",
                                                     !.at = Len(posted),
                                                     !.settles = @ + 1]]
             /\ UNCHANGED <<events, waiter, timers>>
        ELSE /\ polls' = [ps EXCEPT ![p] = [@ EXCEPT !.st = "waiting",
                                                     !.at = Len(posted)]]
             /\ waiter' = p
             /\ timers' = timers \cup {p}
             /\ UNCHANGED events

\* poll executor without the 'cannot handle multiple waiters' check
PollBodyNoWaiterCheck(p, ps) ==
    IF events # <<>>
      THEN /\ polls' = [ps EXCEPT ![p] = [@ EXCEPT !.st = "events", !.res = events,
                                                   !.by = "immediate",
                                                   !.at = Len(posted),
                                                   !.settles = @ + 1]]
           /\ events' = <<>>
           /\ UNCHANGED <<waiter, timers>>
      ELSE /\ polls' = [ps EXCEPT ![p] = [@ EXCEPT !.st = "waiting",
                                                   !.at = Len(posted)]]
           /\ waiter' = p
           /\ timers' = timers \cup {p}
           /\ UNCHANGED events

\* poll executor that tests this._waiter before this.events.length
PollBodyWaiterFirst(p, ps) ==
    IF waiter # 0
      THEN /\ polls' = [ps EXCEPT ![p] = [@ EXCEPT !.st = "rejected",
                                                   !.by = "contract",
                                                   !.at = Len(posted),
                                                   !.settles = @ + 1]]
           /\ UNCHANGED <<events, waiter, timers>>
      ELSE IF events # <<>>
        THEN /\ polls' = [ps EXCEPT ![p] = [@ EXCEPT !.st = "events", !.res = events,
                                                     !.by = "immediate",
                                                     !.at = Len(posted),
                                                     !.settles = @ + 1]]
             /\ events' = <<>>
             /\ UNCHANGED <<waiter, timers>>
        ELSE /\ polls' = [ps EXCEPT ![p] = [@ EXCEPT !.st = "waiting",
                                                     !.at = Len(posted)]]
             /\ waiter' = p
             /\ timers' = timers \cup {p}
             /\ UNCHANGED events

\* the executor of poll()'s promise, run for call p of ps
PollBody(p, ps) ==
    IF events # <<>>
      THEN /\ polls' = [ps EXCEPT ![p] = [@ EXCEPT !.st = "events", !.res = events,
                                                   !.by = "immediate",
                                                   !.at = Len(posted),
                                                   !.settles = @ + 1]]
           /\ events' = <<>>
           /\ UNCHANGED <<waiter, timers>>
      ELSE IF waiter # 0
        THEN /\ polls' = [ps EXCEPT ![p] = [@ EXCEPT !.st = "rejected",
                                                     !.by = "contract",
                                                     !.at = Len(posted),
                                                     !.settles = @ + 1]]
             /\ UNCHANGED <<events, waiter, timers>>
        ELSE /\ polls' = [ps EXCEPT ![p] = [@ EXCEPT !.st = "waiting",
                                                     !.at = Len(posted)]]
             /\ waiter' = p
             /\ timers' = timers \cup {p}
             /\ UNCHANGED events

\* waiter closure that resolves with the queue without emptying it
WaiterResumeKeepsEvents(p) ==
    IF events = <<>>
      THEN /\ waiterThrew' = TRUE
           /\ polls' = [polls EXCEPT ![p] = [@ EXCEPT !.resumed = @ + 1]]
           /\ UNCHANGED <<events, waiter, timers>>
      ELSE /\ timers' = timers \ {p}
           /\ waiter' = 0
           /\ polls' = [polls EXCEPT ![p] = [@ EXCEPT !.st = "events", !.res = events,
                                                      !.by = "wake",
                                                      !.resumed = @ + 1,
                                                      !.settles = @ + 1]]
           /\ UNCHANGED <<events, waiterThrew>>

\* waiter closure without clearTimeout(timeoutId)
WaiterResumeKeepsTimer(p) ==
    IF events = <<>>
      THEN /\ waiterThrew' = TRUE
           /\ polls' = [polls EXCEPT ![p] = [@ EXCEPT !.resumed = @ + 1]]
           /\ UNCHANGED <<events, waiter, timers>>
      ELSE /\ events' = <<>>
           /\ waiter' = 0
           /\ polls' = [polls EXCEPT ![p] = [@ EXCEPT !.st = "events", !.res = events,
                                                      !.by = "wake",
                                                      !.resumed = @ + 1,
                                                      !.settles = @ + 1]]
           /\ UNCHANGED <<timers, waiterThrew>>

\* the waiter closure of poll p
WaiterResume(p) ==
    IF events = <<>>
      THEN /\ waiterThrew' = TRUE
           /\ polls' = [polls EXCEPT ![p] = [@ EXCEPT !.resumed = @ + 1]]
           /\ UNCHANGED <<events, waiter, timers>>
      ELSE /\ timers' = timers \ {p}
           /\ events' = <<>>
           /\ waiter' = 0
           /\ polls' = [polls EXCEPT ![p] = [@ EXCEPT !.st = "events", !.res = events,
                                                      !.by = "wake",
                                                      !.resumed = @ + 1,
                                                      !.settles = @ + 1]]
           /\ UNCHANGED waiterThrew

\* microtask that calls the waiter without looking at events.length
WakeNoLengthCheck ==
    /\ remoteAlive
    /\ wakesQueued > 0
    /\ wakesQueued' = wakesQueued - 1
    /\ deferredNotify' = FALSE
    /\ IF waiter # 0
         THEN WaiterResume(waiter)
         ELSE UNCHANGED <<events, waiter, timers, waiterThrew, polls>>
    /\ UNCHANGED <<remoteAlive, posted>>
    /\ UNCHANGED hostVars

\* the microtask queued by post
Wake ==
    /\ remoteAlive
    /\ wakesQueued > 0
    /\ wakesQueued' = wakesQueued - 1
    /\ deferredNotify' = FALSE
    /\ IF waiter # 0 /\ Len(events) > 0
         THEN WaiterResume(waiter)
         ELSE UNCHANGED <<events, waiter, timers, waiterThrew, polls>>
    /\ UNCHANGED <<remoteAlive, posted>>
    /\ UNCHANGED hostVars

\* timeout callback that resolves without clearing this._waiter
TimeoutKeepsWaiter(p) ==
    /\ remoteAlive
    /\ p \in timers
    /\ timers' = timers \ {p}
    /\ IF waiter = p
         THEN /\ UNCHANGED waiter
              /\ IF events # <<>>
                   THEN /\ polls' = [polls EXCEPT ![p] =
                                        [@ EXCEPT !.st = "events", !.res = events,
                                                  !.by = "timeout",
                                                  !.settles = @ + 1]]
                        /\ events' = <<>>
                   ELSE /\ polls' = [polls EXCEPT ![p] =
                                        [@ EXCEPT !.st = "null", !.by = "timeout",
                                                  !.settles = @ + 1]]
                        /\ UNCHANGED events
         ELSE UNCHANGED <<waiter, polls, events>>
    /\ UNCHANGED <<deferredNotify, wakesQueued, waiterThrew, remoteAlive, posted>>
    /\ UNCHANGED hostVars

\* timeout callback that resolves null whatever the queue holds
TimeoutAlwaysNull(p) ==
    /\ remoteAlive
    /\ p \in timers
    /\ timers' = timers \ {p}
    /\ IF waiter = p
         THEN /\ waiter' = 0
              /\ polls' = [polls EXCEPT ![p] =
                              [@ EXCEPT !.st = "null", !.by = "timeout",
                                        !.settles = @ + 1]]
              /\ UNCHANGED events
         ELSE UNCHANGED <<waiter, polls, events>>
    /\ UNCHANGED <<deferredNotify, wakesQueued, waiterThrew, remoteAlive, posted>>
    /\ UNCHANGED hostVars

\* the setTimeout callback of poll p
Timeout(p) ==
    /\ remoteAlive
    /\ p \in timers
    /\ timers' = timers \ {p}
    /\ IF waiter = p
         THEN /\ waiter' = 0
              /\ IF events # <<>>
                   THEN /\ polls' = [polls EXCEPT ![p] =
                                        [@ EXCEPT !.st = "events", !.res = events,
                                                  !.by = "timeout",
                                                  !.settles = @ + 1]]
                        /\ events' = <<>>
                   ELSE /\ polls' = [polls EXCEPT ![p] =
                                        [@ EXCEPT !.st = "null", !.by = "timeout",
                                                  !.settles = @ + 1]]
                        /\ UNCHANGED events
         ELSE UNCHANGED <<waiter, polls, events>>
    /\ UNCHANGED <<deferredNotify, wakesQueued, waiterThrew, remoteAlive, posted>>
    /\ UNCHANGED hostVars

\* remote.poll(timeout) called directly in the remote context
DirectPoll ==
    /\ remoteAlive
    /\ Len(polls) < MaxPolls
    /\ PollBody(Len(polls) + 1, Append(polls, NewPoll("sent")))
    /\ UNCHANGED <<deferredNotify, wakesQueued, waiterThrew, remoteAlive, posted>>
    /\ UNCHANGED hostVars

\* the evaluate request of host poll p runs remote.poll(timeout)
RemotePollExec(p) ==
    /\ remoteAlive
    /\ p \in PollIds
    /\ polls[p].st = "sent"
    /\ PollBody(p, polls)
    /\ UNCHANGED <<deferredNotify, wakesQueued, waiterThrew, remoteAlive, posted>>
    /\ UNCHANGED hostVars

----------------------------------------------------------------------------
\* EventBridge

\* emit loop that stops one short of the end of the batch
EmitBatchSkipsLast(batch, k) ==
    IF k = 0 THEN emitted \o SubSeq(batch, 1, Len(batch) - 1)
    ELSE emitted \o SubSeq(batch, 1, k)

\* emit('event', ev) for each ev of batch in order; the listener of the k-th
\* emit throws when 0 < k (k = 0: no listener throws)
EmitBatch(batch, k) ==
    IF k = 0 THEN emitted \o batch ELSE emitted \o SubSeq(batch, 1, k)

\* the code after the while loop up to its first suspension: the release call
\* when needsDispose holds, otherwise the end of the async function
Teardown(nd) ==
    IF nd
      THEN /\ releaseAttempts' = releaseAttempts + 1
           /\ pc' = "release"
      ELSE /\ pc' = "finally"
           /\ UNCHANGED releaseAttempts

\* loop that calls pollBridge() again while the previous race is still pending
LoopIssuePipelined ==
    /\ pc \in {"loop", "race"}
    /\ Len(polls) < MaxPolls
    /\ polls' = Append(polls, NewPoll("sent"))
    /\ curPoll' = Len(polls) + 1
    /\ raceResult' = IF cancelRequested THEN "cancelled"
                     ELSE IF ~remoteAlive THEN "targetclose"
                     ELSE "none"
    /\ pc' = "race"
    /\ UNCHANGED <<events, waiter, deferredNotify, wakesQueued, timers, waiterThrew,
                   remoteAlive, posted>>
    /\ UNCHANGED <<cancelRequested, needsDispose, active, emitted, disposeEmits,
                   releaseAttempts, releaseResult, listenerThrew, workerOutcome, disposeCalls,
                   disposePending, disposeResolved, disposeRejected,
                   lateDisposeCalls, disposedWhileRunning, postedAtDispose,
                   launch>>

\* top of the while loop: Promise.race([cancelled, pollBridge()]).  pollBridge()
\* is called whether or not the cancel signal is already resolved.
LoopIssue ==
    /\ pc = "loop"
    /\ Len(polls) < MaxPolls
    /\ polls' = Append(polls, NewPoll("sent"))
    /\ curPoll' = Len(polls) + 1
    /\ raceResult' = IF cancelRequested THEN "cancelled"
                     ELSE IF ~remoteAlive THEN "targetclose"
                     ELSE "none"
    /\ pc' = "race"
    /\ UNCHANGED <<events, waiter, deferredNotify, wakesQueued, timers, waiterThrew,
                   remoteAlive, posted>>
    /\ UNCHANGED <<cancelRequested, needsDispose, active, emitted, disposeEmits,
                   releaseAttempts, releaseResult, listenerThrew, workerOutcome, disposeCalls,
                   disposePending, disposeResolved, disposeRejected,
                   lateDisposeCalls, disposedWhileRunning, postedAtDispose,
                   launch>>

\* poll result forwarded to the subscribers even when the race was already lost
HostReceiveForwardsAbandoned ==
    \/ /\ pc = "race"
       /\ raceResult = "none"
       /\ polls[curPoll].st \in {"events", "null", "rejected"}
       /\ raceResult' = IF polls[curPoll].st = "rejected" THEN "error"
                        ELSE polls[curPoll].st
       /\ UNCHANGED remoteVars
       /\ UNCHANGED <<pc, curPoll, cancelRequested, needsDispose, active, emitted,
                      disposeEmits, releaseAttempts, releaseResult, listenerThrew,
                      workerOutcome, disposeCalls, disposePending, disposeResolved,
                      disposeRejected, lateDisposeCalls, disposedWhileRunning, postedAtDispose,
                   launch>>
    \/ /\ curPoll # 0
       /\ raceResult = "cancelled"
       /\ polls[curPoll].st = "events"
       /\ ~polls[curPoll].taken
       /\ emitted' = emitted \o polls[curPoll].res
       /\ polls' = [polls EXCEPT ![curPoll] = [@ EXCEPT !.taken = TRUE]]
       /\ UNCHANGED <<events, waiter, deferredNotify, wakesQueued, timers, waiterThrew,
                      remoteAlive, posted>>
       /\ UNCHANGED <<pc, curPoll, raceResult, cancelRequested, needsDispose, active,
                      disposeEmits, releaseAttempts, releaseResult, listenerThrew,
                      workerOutcome, disposeCalls, disposePending, disposeResolved,
                      disposeRejected, lateDisposeCalls, disposedWhileRunning, postedAtDispose,
                   launch>>

\* the settlement of the evaluate promise of the current poll reaches the host
\* before the cancel signal does
HostReceive ==
    /\ pc = "race"
    /\ raceResult = "none"
    /\ polls[curPoll].st \in {"events", "null", "rejected"}
    /\ raceResult' = IF polls[curPoll].st = "rejected" THEN "error"
                     ELSE polls[curPoll].st
    /\ UNCHANGED remoteVars
    /\ UNCHANGED <<pc, curPoll, cancelRequested, needsDispose, active, emitted,
                   disposeEmits, releaseAttempts, releaseResult, listenerThrew, workerOutcome,
                   disposeCalls, disposePending, disposeResolved, disposeRejected,
                   lateDisposeCalls, disposedWhileRunning, postedAtDispose,
                   launch>>

\* handle.evaluate fails for a reason other than the target closing
TransportFail ==
    /\ pc = "race"
    /\ raceResult = "none"
    /\ raceResult' = "error"
    /\ UNCHANGED remoteVars
    /\ UNCHANGED <<pc, curPoll, cancelRequested, needsDispose, active, emitted,
                   disposeEmits, releaseAttempts, releaseResult, listenerThrew, workerOutcome,
                   disposeCalls, disposePending, disposeResolved, disposeRejected,
                   lateDisposeCalls, disposedWhileRunning, postedAtDispose,
                   launch>>

\* the page or worker goes away: a pending evaluate fails with TargetCloseError
TargetClose ==
    /\ remoteAlive
    /\ remoteAlive' = FALSE
    /\ raceResult' = IF pc = "race" /\ raceResult = "none" THEN "targetclose"
                     ELSE raceResult
    /\ UNCHANGED <<events, waiter, deferredNotify, wakesQueued, timers, waiterThrew,
                   polls, posted>>
    /\ UNCHANGED <<pc, curPoll, cancelRequested, needsDispose, active, emitted,
                   disposeEmits, releaseAttempts, releaseResult, listenerThrew, workerOutcome,
                   disposeCalls, disposePending, disposeResolved, disposeRejected,
                   lateDisposeCalls, disposedWhileRunning, postedAtDispose,
                   launch>>

\* loop that goes on polling after a poll failure
LoopResumeRetries(k) ==
    /\ pc = "race"
    /\ raceResult # "none"
    /\ \/ /\ raceResult = "targetclose"
          /\ k = 0
          /\ needsDispose' = FALSE
          /\ Teardown(FALSE)
          /\ UNCHANGED <<emitted, listenerThrew, polls>>
       \/ /\ raceResult = "error"
          /\ k = 0
          /\ pc' = "loop"
          /\ UNCHANGED <<needsDispose, emitted, listenerThrew, polls, releaseAttempts>>
       \/ /\ raceResult = "cancelled"
          /\ k = 0
          /\ Teardown(needsDispose)
          /\ UNCHANGED <<needsDispose, emitted, listenerThrew, polls>>
       \/ /\ raceResult = "null"
          /\ k = 0
          /\ pc' = "loop"
          /\ polls' = [polls EXCEPT ![curPoll] = [@ EXCEPT !.taken = TRUE]]
          /\ UNCHANGED <<needsDispose, emitted, listenerThrew, releaseAttempts>>
       \/ /\ raceResult = "events"
          /\ k \in 0..Len(polls[curPoll].res)
          /\ emitted' = EmitBatch(polls[curPoll].res, k)
          /\ listenerThrew' = (k # 0)
          /\ pc' = IF k = 0 THEN "loop" ELSE "finally"
          /\ polls' = [polls EXCEPT ![curPoll] = [@ EXCEPT !.taken = TRUE]]
          /\ UNCHANGED <<needsDispose, releaseAttempts>>
    /\ UNCHANGED <<events, waiter, deferredNotify, wakesQueued, timers, waiterThrew,
                   remoteAlive, posted>>
    /\ UNCHANGED <<curPoll, raceResult, cancelRequested, active, disposeEmits,
                   releaseResult, workerOutcome, disposeCalls, disposePending, disposeResolved,
                   disposeRejected,
                   lateDisposeCalls, disposedWhileRunning, postedAtDispose,
                   launch>>

\* loop that treats a null result like a cancellation
LoopResumeNullBreaks(k) ==
    /\ pc = "race"
    /\ raceResult # "none"
    /\ \/ /\ raceResult = "targetclose"
          /\ k = 0
          /\ needsDispose' = FALSE
          /\ Teardown(FALSE)
          /\ UNCHANGED <<emitted, listenerThrew, polls>>
       \/ /\ raceResult = "error"
          /\ k = 0
          /\ Teardown(needsDispose)
          /\ UNCHANGED <<needsDispose, emitted, listenerThrew, polls>>
       \/ /\ raceResult = "cancelled"
          /\ k = 0
          /\ Teardown(needsDispose)
          /\ UNCHANGED <<needsDispose, emitted, listenerThrew, polls>>
       \/ /\ raceResult = "null"
          /\ k = 0
          /\ Teardown(needsDispose)
          /\ polls' = [polls EXCEPT ![curPoll] = [@ EXCEPT !.taken = TRUE]]
          /\ UNCHANGED <<needsDispose, emitted, listenerThrew>>
       \/ /\ raceResult = "events"
          /\ k \in 0..Len(polls[curPoll].res)
          /\ emitted' = EmitBatch(polls[curPoll].res, k)
          /\ listenerThrew' = (k # 0)
          /\ pc' = IF k = 0 THEN "loop" ELSE "finally"
          /\ polls' = [polls EXCEPT ![curPoll] = [@ EXCEPT !.taken = TRUE]]
          /\ UNCHANGED <<needsDispose, releaseAttempts>>
    /\ UNCHANGED <<events, waiter, deferredNotify, wakesQueued, timers, waiterThrew,
                   remoteAlive, posted>>
    /\ UNCHANGED <<curPoll, raceResult, cancelRequested, active, disposeEmits,
                   releaseResult, workerOutcome, disposeCalls, disposePending, disposeResolved,
                   disposeRejected,
                   lateDisposeCalls, disposedWhileRunning, postedAtDispose,
                   launch>>

\* the loop body after the await, up to the next suspension; k is the emit at
\* which a listener throws (0: none)
LoopResume(k) ==
    /\ pc = "race"
    /\ raceResult # "none"
    /\ \/ /\ raceResult = "targetclose"
          /\ k = 0
          /\ needsDispose' = FALSE
          /\ Teardown(FALSE)
          /\ UNCHANGED <<emitted, listenerThrew, polls>>
       \/ /\ raceResult = "error"
          /\ k = 0
          /\ Teardown(needsDispose)
          /\ UNCHANGED <<needsDispose, emitted, listenerThrew, polls>>
       \/ /\ raceResult = "cancelled"
          /\ k = 0
          /\ Teardown(needsDispose)
          /\ UNCHANGED <<needsDispose, emitted, listenerThrew, polls>>
       \/ /\ raceResult = "null"
          /\ k = 0
          /\ pc' = "loop"
          /\ polls' = [polls EXCEPT ![curPoll] = [@ EXCEPT !.taken = TRUE]]
          /\ UNCHANGED <<needsDispose, emitted, listenerThrew, releaseAttempts>>
       \/ /\ raceResult = "events"
          /\ k \in 0..Len(polls[curPoll].res)
          /\ emitted' = EmitBatch(polls[curPoll].res, k)
          /\ listenerThrew' = (k # 0)
          /\ pc' = IF k = 0 THEN "loop" ELSE "finally"
          /\ polls' = [polls EXCEPT ![curPoll] = [@ EXCEPT !.taken = TRUE]]
          /\ UNCHANGED <<needsDispose, releaseAttempts>>
    /\ UNCHANGED <<events, waiter, deferredNotify, wakesQueued, timers, waiterThrew,
                   remoteAlive, posted>>
    /\ UNCHANGED <<curPoll, raceResult, cancelRequested, active, disposeEmits,
                   releaseResult, workerOutcome, disposeCalls, disposePending, disposeResolved,
                   disposeRejected,
                   lateDisposeCalls, disposedWhileRunning, postedAtDispose,
                   launch>>

\* await this.handle.dispose() settles; a failure is caught and ignored
ReleaseSettle(ok) ==
    /\ pc = "release"
    /\ releaseResult' = IF ok THEN "ok" ELSE "failed"
    /\ pc' = "finally"
    /\ UNCHANGED remoteVars
    /\ UNCHANGED <<curPoll, raceResult, cancelRequested, needsDispose, active, emitted,
                   disposeEmits, releaseAttempts, listenerThrew, workerOutcome,
                   disposeCalls, disposePending, disposeResolved, disposeRejected,
                   lateDisposeCalls, disposedWhileRunning, postedAtDispose,
                   launch>>

\* the .finally callback; throws: a 'dispose' listener throws out of emit
Finally(throws) ==
    /\ pc = "finally"
    /\ active' = FALSE
    /\ disposeEmits' = disposeEmits + 1
    /\ workerOutcome' = IF listenerThrew \/ throws THEN "rejected" ELSE "fulfilled"
    /\ pc' = "done"
    /\ postedAtDispose' = Len(posted)
    /\ UNCHANGED remoteVars
    /\ UNCHANGED <<curPoll, raceResult, cancelRequested, needsDispose, emitted,
                   releaseAttempts, releaseResult, listenerThrew, disposeCalls, disposePending,
                   disposeResolved, disposeRejected, lateDisposeCalls,
                   disposedWhileRunning, launch>>

\* dispose() that clears this.active itself instead of leaving it to the worker
DisposeDeactivates ==
    /\ disposeCalls < MaxDispose
    /\ disposeCalls' = disposeCalls + 1
    /\ cancelRequested' = TRUE
    /\ raceResult' = IF pc = "race" /\ raceResult = "none" THEN "cancelled"
                     ELSE raceResult
    /\ disposePending' = disposePending + 1
    /\ lateDisposeCalls' = IF disposeEmits > 0 THEN lateDisposeCalls + 1
                           ELSE lateDisposeCalls
    /\ disposedWhileRunning' = (disposedWhileRunning \/ pc \in {"loop", "race"})
    /\ active' = FALSE
    /\ UNCHANGED remoteVars
    /\ UNCHANGED <<pc, curPoll, needsDispose, emitted, disposeEmits,
                   releaseAttempts, releaseResult, listenerThrew, workerOutcome,
                   disposeResolved, disposeRejected, postedAtDispose, launch>>

\* dispose() that emits 'dispose' itself when the bridge is already inactive
DisposeReemits ==
    /\ disposeCalls < MaxDispose
    /\ disposeCalls' = disposeCalls + 1
    /\ cancelRequested' = TRUE
    /\ raceResult' = IF pc = "race" /\ raceResult = "none" THEN "cancelled"
                     ELSE raceResult
    /\ disposePending' = disposePending + 1
    /\ lateDisposeCalls' = IF disposeEmits > 0 THEN lateDisposeCalls + 1
                           ELSE lateDisposeCalls
    /\ disposedWhileRunning' = (disposedWhileRunning \/ pc \in {"loop", "race"})
    /\ disposeEmits' = IF ~active THEN disposeEmits + 1 ELSE disposeEmits
    /\ UNCHANGED remoteVars
    /\ UNCHANGED <<pc, curPoll, needsDispose, active, emitted,
                   releaseAttempts, releaseResult, listenerThrew, workerOutcome,
                   disposeResolved, disposeRejected, postedAtDispose, launch>>

\* dispose(): this._cancel(), then the call waits on this._worker
Dispose ==
    /\ disposeCalls < MaxDispose
    /\ disposeCalls' = disposeCalls + 1
    /\ cancelRequested' = TRUE
    /\ raceResult' = IF pc = "race" /\ raceResult = "none" THEN "cancelled"
                     ELSE raceResult
    /\ disposePending' = disposePending + 1
    /\ lateDisposeCalls' = IF disposeEmits > 0 THEN lateDisposeCalls + 1
                           ELSE lateDisposeCalls
    /\ disposedWhileRunning' = (disposedWhileRunning \/ pc \in {"loop", "race"})
    /\ UNCHANGED remoteVars
    /\ UNCHANGED <<pc, curPoll, needsDispose, active, emitted, disposeEmits,
                   releaseAttempts, releaseResult, listenerThrew, workerOutcome, disposeResolved,
                   disposeRejected, postedAtDispose, launch>>

\* dispose() that returns without awaiting this._worker
DisposeReturnNoAwait ==
    /\ disposePending > 0
    /\ disposePending' = disposePending - 1
    /\ IF workerOutcome # "rejected"
         THEN /\ disposeResolved' = disposeResolved + 1
              /\ UNCHANGED disposeRejected
         ELSE /\ disposeRejected' = disposeRejected + 1
              /\ UNCHANGED disposeResolved
    /\ UNCHANGED remoteVars
    /\ UNCHANGED <<pc, curPoll, raceResult, cancelRequested, needsDispose, active,
                   emitted, disposeEmits, releaseAttempts, releaseResult, listenerThrew,
                   workerOutcome, disposeCalls, lateDisposeCalls, disposedWhileRunning, postedAtDispose,
                   launch>>

\* a dispose() call resumes after await this._worker
DisposeReturn ==
    /\ disposePending > 0
    /\ workerOutcome # "pending"
    /\ disposePending' = disposePending - 1
    /\ IF workerOutcome = "fulfilled"
         THEN /\ disposeResolved' = disposeResolved + 1
              /\ UNCHANGED disposeRejected
         ELSE /\ disposeRejected' = disposeRejected + 1
              /\ UNCHANGED disposeResolved
    /\ UNCHANGED remoteVars
    /\ UNCHANGED <<pc, curPoll, raceResult, cancelRequested, needsDispose, active,
                   emitted, disposeEmits, releaseAttempts, releaseResult, listenerThrew,
                   workerOutcome, disposeCalls, lateDisposeCalls, disposedWhileRunning, postedAtDispose,
                   launch>>

----------------------------------------------------------------------------
Next ==
    \/ Post
    \/ \E p \in PollIds : RemotePollExec(p)
    \/ Wake
    \/ \E p \in PollIds : Timeout(p)
    \/ LoopIssue
    \/ HostReceive
    \/ TransportFail
    \/ TargetClose
    \/ \E k \in 0..MaxPosts : LoopResume(k)
    \/ \E ok \in BOOLEAN : ReleaseSettle(ok)
    \/ \E t \in BOOLEAN : Finally(t)
    \/ Dispose
    \/ DisposeReturn

Spec == Init /\ [][Next]_vars

\* the bridge on which dispose() is never called
UndisposedNext ==
    \/ Post
    \/ \E p \in PollIds : RemotePollExec(p)
    \/ Wake
    \/ \E p \in PollIds : Timeout(p)
    \/ LoopIssue
    \/ HostReceive
    \/ TransportFail
    \/ TargetClose
    \/ \E k \in 0..MaxPosts : LoopResume(k)
    \/ \E ok \in BOOLEAN : ReleaseSettle(ok)
    \/ \E t \in BOOLEAN : Finally(t)

\* That bridge with the scheduling the runtimes guarantee: a queued callback, a
\* due timer, a sent evaluate request, an arrived response and a resumable
\* await do run, and the release call settles.  post, a transport failure and
\* the closing of the target are up to the environment.
FairSpec ==
    /\ Init /\ [][UndisposedNext]_vars
    /\ WF_vars(LoopIssue)
    /\ WF_vars(\E p \in PollIds : RemotePollExec(p))
    /\ WF_vars(Wake)
    /\ WF_vars(\E p \in PollIds : Timeout(p))
    /\ WF_vars(HostReceive)
    /\ WF_vars(\E k \in 0..MaxPosts : LoopResume(k))
    /\ WF_vars(\E ok \in BOOLEAN : ReleaseSettle(ok))
    /\ WF_vars(\E t \in BOOLEAN : Finally(t))

QueueNext ==
    \/ Post
    \/ DirectPoll
    \/ Wake
    \/ \E p \in PollIds : Timeout(p)

QueueSpec == Init /\ [][QueueNext]_vars
----------------------------------------------------------------------------
\* launchChrome

\* every variable of the bridge
bridgeVars == <<events, waiter, deferredNotify, wakesQueued, timers, waiterThrew,
                remoteAlive, polls, posted,
                pc, curPoll, raceResult, cancelRequested, needsDispose, active, emitted,
                disposeEmits, releaseAttempts, releaseResult, listenerThrew,
                workerOutcome, disposeCalls, disposePending, disposeResolved,
                disposeRejected, lateDisposeCalls, disposedWhileRunning,
                postedAtDispose>>

\* Buffer.alloc(8192)
BufferSize == 8192

\* sizes of the stderr chunks
ChunkSizes == {512, 4096}

\* what the regex finds in the buffer once a chunk is appended: nothing, the
\* 'Cannot start http server for devtools.' line, or a 'DevTools listening on'
\* line whose address is fine / does not parse / has another scheme than
\* ws: or wss: / has another port than the requested one
ChunkKinds == {"noise", "listenfail", "addr_ok", "addr_unparsable",
               "addr_badscheme", "addr_badport"}

FailureReasons == {"StartupTimeout", "BufferOverflow", "ListenFailure",
                   "AddressParseError", "ProtocolMismatch", "PortMismatch",
                   "PrematureExit"}

\* removeListeners()
RemoveListeners(l) ==
    [l EXCEPT !.timer = FALSE, !.dataListener = FALSE, !.exitListener = FALSE]

\* bail that does not call removeListeners()
BailKeepsListeners(l, reason) ==
    LET k == [l EXCEPT !.kills = @ + 1,
                       !.proc = IF @ = "running" THEN "killed" ELSE @]
    IN  [k EXCEPT !.rejects = @ + 1,
                  !.killedFirst = @ /\ k.kills > 0,
                  !.outcome = IF @ = "pending" THEN reason ELSE @]

\* bail(...): removeListeners(); proc.kill(); reject(new Error(...))
Bail(l, reason) ==
    LET r == RemoveListeners(l)
        k == [r EXCEPT !.kills = @ + 1,
                       !.proc = IF @ = "running" THEN "killed" ELSE @]
    IN  [k EXCEPT !.rejects = @ + 1,
                  !.killedFirst = @ /\ k.kills > 0,
                  !.outcome = IF @ = "pending" THEN reason ELSE @]

\* resolve({process, listenPort, browserDevtoolsUrl})
LaunchResolve(l) ==
    [l EXCEPT !.resolves = @ + 1,
              !.outcome = IF @ = "pending" THEN "resolved" ELSE @]

\* the startup timer fires
LaunchTimeout ==
    /\ launch.timer
    /\ launch' = Bail([launch EXCEPT !.timer = FALSE], "StartupTimeout")
    /\ UNCHANGED bridgeVars

\* stderrListener(chunk)
LaunchData(kind, size) ==
    /\ launch.dataListener
    /\ LET copied == IF size <= BufferSize - launch.ptr THEN size
                     ELSE BufferSize - launch.ptr
           l == [launch EXCEPT !.ptr = @ + copied]
       IN  launch' =
             IF l.ptr >= BufferSize THEN Bail(l, "BufferOverflow")
             ELSE IF kind = "noise" THEN l
             ELSE IF kind = "listenfail" THEN Bail(l, "ListenFailure")
             ELSE IF kind = "addr_unparsable"
               THEN Bail(RemoveListeners(l), "AddressParseError")
             ELSE IF kind = "addr_badscheme"
               THEN Bail(RemoveListeners(l), "ProtocolMismatch")
             ELSE IF kind = "addr_badport"
               THEN Bail(RemoveListeners(l), "PortMismatch")
             ELSE LaunchResolve(RemoveListeners(l))
    /\ UNCHANGED bridgeVars

\* the browser process exits: exitListener runs if it is still attached
LaunchExit ==
    /\ launch.proc # "exited"
    /\ LET l == [launch EXCEPT !.proc = "exited"]
       IN  launch' = IF launch.exitListener THEN Bail(l, "PrematureExit") ELSE l
    /\ UNCHANGED bridgeVars

LaunchNext ==
    \/ LaunchTimeout
    \/ \E kind \in ChunkKinds, size \in ChunkSizes : LaunchData(kind, size)
    \/ LaunchExit

LaunchSpec == Init /\ [][LaunchNext]_vars

----------------------------------------------------------------------------
\* Properties

\* the events of the polls whose result the host loop received, in poll order
RECURSIVE TakenUpTo(_)
TakenUpTo(n) ==
    IF n = 0 THEN <<>>
    ELSE TakenUpTo(n - 1) \o (IF polls[n].taken THEN polls[n].res ELSE <<>>)

TakenEvents == TakenUpTo(Len(polls))

\* every event removed from the queue by a poll so far, in poll order
RECURSIVE DrainedUpTo(_)
DrainedUpTo(n) ==
    IF n = 0 THEN <<>> ELSE DrainedUpTo(n - 1) \o polls[n].res

DrainedEvents == DrainedUpTo(Len(polls))

Waiting(ps) == {p \in DOMAIN ps : ps[p].st = "waiting"}

\* C1: the 'event' notifications emitted so far are a prefix of the events
\* passed to post, in call order (nothing reordered, nothing delivered twice).
C1_EmittedPrefixOfPosted == IsPrefix(emitted, posted)

\* C1 witness: two different events were emitted in order after a dispose()
\* call was made, with a third event posted.
C1_Witness ==
    /\ Len(emitted) >= 2
    /\ emitted[1] # emitted[2]
    /\ Len(posted) = MaxPosts
    /\ cancelRequested

C3_FirstPollReturnsPosted ==
    [][(Len(polls) = 0 /\ posted # <<>> /\ DirectPoll)
          => /\ Len(polls') = 1
             /\ polls'[1].st = "events"
             /\ polls'[1].res = posted
             /\ events' = <<>>
             /\ waiter' = 0
             /\ timers' = {}]_vars

\* C3 witness: the only poll so far returned the three posted events at once.
C3_Witness ==
    /\ Len(polls) = 1
    /\ polls[1].by = "immediate"
    /\ Len(posted) = 3
    /\ polls[1].res = posted
    /\ events = <<>>
    /\ waiter = 0

\* C4: when the timeout of a waiting poll fires and no post was made since the
\* poll was called, the poll resolves with null, the waiter is cleared and the
\* queue is still empty.
C4_TimeoutGivesNull ==
    [][\A p \in PollIds :
          (polls[p].st = "waiting" /\ polls[p].at = Len(posted) /\ Timeout(p))
             => /\ polls'[p].st = "null"
                /\ polls'[p].res = <<>>
                /\ waiter' = 0
                /\ events' = <<>>]_vars

\* C4 witness: a poll has timed out with null, no post was made since it was
\* called, and the waiter and the queue are clear.
C4_Witness ==
    \E p \in PollIds :
        /\ polls[p].st = "null"
        /\ polls[p].by = "timeout"
        /\ polls[p].at = Len(posted)
        /\ waiter = 0
        /\ events = <<>>

\* C5: never more than one wake is queued; the wake that finds a waiter and a
\* non-empty queue resumes that waiter once and resolves its poll with the
\* whole queue, in post order, leaving no wake, no waiter and no event behind;
\* no waiter is resumed twice.
C5_CoalescedWake ==
    [][/\ wakesQueued' <= 1
       /\ \A p \in DOMAIN polls' : polls'[p].resumed <= 1 /\ polls'[p].settles <= 1
       /\ \A p \in PollIds :
             (waiter = p /\ events # <<>> /\ Wake)
                => /\ polls'[p].st = "events"
                   /\ polls'[p].res = events
                   /\ events = SubSeq(posted, Len(posted) - Len(events) + 1, Len(posted))
                   /\ polls'[p].resumed = 1
                   /\ waiter' = 0
                   /\ events' = <<>>
                   /\ wakesQueued' = 0
                   /\ ~deferredNotify'
                   /\ p \notin timers']_vars

\* C5 witness: a poll was resolved by the wake with a batch of two events, all
\* posted while it was pending.
C5_Witness ==
    \E p \in PollIds :
        /\ polls[p].by = "wake"
        /\ polls[p].resumed = 1
        /\ Len(polls[p].res) = 2
        /\ polls[p].res = SubSeq(posted, polls[p].at + 1, polls[p].at + 2)
        /\ wakesQueued = 0

\* C6 as stated: a poll called while a waiter is registered is rejected and
\* leaves the waiter and the queue unchanged, whatever the queue holds.
C6_Original_SecondPollAlwaysFails ==
    [][(waiter # 0 /\ DirectPoll)
          => /\ polls'[Len(polls')].st = "rejected"
             /\ waiter' = waiter
             /\ events' = events]_vars

\* C6 amended: a poll called while a waiter is registered is rejected when the
\* queue is empty, leaving waiter, timers and queue unchanged; when the queue
\* is not empty (posted, wake not yet run) it resolves at once with the queue
\* and the first waiter stays registered.
C6_SecondPollFailsOnEmptyQueue ==
    [][(waiter # 0 /\ DirectPoll)
          => /\ waiter' = waiter
             /\ timers' = timers
             /\ polls'[waiter] = polls[waiter]
             /\ IF events = <<>>
                  THEN /\ polls'[Len(polls')].st = "rejected"
                       /\ polls'[Len(polls')].by = "contract"
                       /\ events' = events
                  ELSE /\ polls'[Len(polls')].st = "events"
                       /\ polls'[Len(polls')].res = events
                       /\ events' = <<>>]_vars

\* C6 witness: a second poll was rejected while the first is still waiting.
C6_Witness ==
    \E p, q \in PollIds :
        /\ p < q
        /\ waiter = p
        /\ polls[p].st = "waiting"
        /\ polls[q].st = "rejected"
        /\ polls[q].by = "contract"

\* C7: at most one poll is waiting, it is the one whose closure this._waiter
\* holds, and no step replaces a registered waiter by another one.
C7_SingleWaiter ==
    [][/\ Cardinality(Waiting(polls')) <= 1
       /\ \A p \in Waiting(polls') : waiter' = p
       /\ waiter' # 0 => waiter' \in Waiting(polls')
       /\ (waiter # 0 /\ waiter' # 0) => waiter' = waiter]_vars

\* C7 witness: the third poll is the registered waiter after two earlier polls
\* were settled.
C7_Witness ==
    /\ Len(polls) = 3
    /\ waiter = 3
    /\ Waiting(polls) = {3}
    /\ polls[1].st \in {"events", "null"}
    /\ polls[2].st \in {"events", "null"}

\* C8: a dispose() call has resolved only if the loop has exited, the release
\* call has settled or was skipped, active is false and 'dispose' was emitted.
C8_DisposeReturnsAfterTeardown ==
    disposeResolved > 0
        => /\ pc = "done"
           /\ releaseAttempts = 0 \/ releaseResult # "none"
           /\ ~active
           /\ disposeEmits = 1

\* C8 witness: dispose() has resolved after a release attempt that failed.
C8_Witness ==
    /\ disposeResolved > 0
    /\ releaseAttempts = 1
    /\ releaseResult = "failed"

\* C9: whatever the number of dispose() calls, 'dispose' is emitted at most
\* once and the remote release is attempted at most once.
C9_TeardownOnce ==
    /\ disposeEmits <= 1
    /\ releaseAttempts <= 1
    /\ lateDisposeCalls > 0 => (pc = "done" /\ ~active)

\* C9 witness: dispose() was called again on a disposed bridge and returned.
C9_Witness ==
    /\ lateDisposeCalls > 0
    /\ disposeCalls = MaxDispose
    /\ disposePending = 0
    /\ disposeEmits = 1
    /\ releaseAttempts = 1

\* C10: once 'dispose' has been emitted no step emits an 'event'.
C10_NoEventAfterDispose ==
    [][disposeEmits > 0 => emitted' = emitted]_vars

\* C10 witness: after 'dispose' was emitted an event was posted and the poll
\* left in flight at cancellation resolved with it.
C10_Witness ==
    /\ disposeEmits = 1
    /\ postedAtDispose >= 0
    /\ Len(posted) > postedAtDispose
    /\ \E p \in PollIds :
          /\ polls[p].st = "events"
          /\ ~polls[p].taken
          /\ polls[p].by = "wake"
          /\ polls[p].at + Len(polls[p].res) > postedAtDispose
    /\ Len(emitted) < Len(posted)

\* the polls whose result the host loop has not received
Outstanding == {p \in PollIds : ~polls[p].taken}

\* C11: the loop calls poll only when every earlier poll has resolved and its
\* result was received; while the loop runs at most one poll is outstanding;
\* once the loop has been left (cancellation won, or a failure) no poll is
\* issued.
C11_SequentialPolls ==
    [][/\ Len(polls') > Len(polls)
          => /\ pc = "loop"
             /\ Len(polls') = Len(polls) + 1
             /\ \A p \in PollIds : polls[p].taken /\ polls[p].st \in {"events", "null"}
       /\ pc' \in {"loop", "race"} => Cardinality({p \in DOMAIN polls' : ~polls'[p].taken}) <= 1
       /\ pc \notin {"loop", "race"} => Len(polls') = Len(polls)]_vars

\* C11 witness: cancellation won the race of the second poll, the bridge is
\* disposed, and no third poll was issued although one more was possible.
C11_Witness ==
    /\ pc = "done"
    /\ raceResult = "cancelled"
    /\ Len(polls) = 2
    /\ Len(polls) < MaxPolls
    /\ polls[1].taken
    /\ Outstanding = {2}

\* C12: active is true exactly until the finally callback has run, which is
\* after the loop has exited and the release call has settled or was skipped;
\* once false it stays false.
C12_ActiveUntilTeardown ==
    [][/\ active' <=> pc' # "done"
       /\ ~active' => (releaseAttempts' = 0 \/ releaseResult' # "none")
       /\ ~active => ~active']_vars

\* C12 witness: active is still true while the release call is pending after
\* a dispose() call.
C12_Witness ==
    /\ active
    /\ pc = "release"
    /\ cancelRequested
    /\ releaseResult = "none"

\* C13 as stated (its final result): once a dispose() call made while the loop
\* was running has returned, the bridge is Disposed: the release was attempted
\* (unless the target was found closed), active is false and 'dispose' was
\* emitted.
C13_Original_DisposedAfterDispose ==
    (disposedWhileRunning /\ disposeResolved + disposeRejected > 0
        /\ raceResult # "targetclose")
        => /\ releaseAttempts = 1
           /\ ~active
           /\ disposeEmits = 1

\* C15 as stated: whenever active has become false, the release was attempted
\* exactly when the loop was not left on a TargetCloseError.
C15_Original_ReleaseOnEveryExit ==
    ~active => IF raceResult = "targetclose" THEN releaseAttempts = 0
               ELSE releaseAttempts = 1

\* C14: the launch settles at most once; whenever it has failed the process
\* was killed before the rejection; once it has settled no timer and no
\* listener is left that could settle it again; a successful launch never
\* kills the process.
C14_LaunchSettlesOnce ==
    /\ launch.resolves + launch.rejects <= 1
    /\ launch.outcome = "pending" <=> launch.resolves + launch.rejects = 0
    /\ launch.rejects > 0
          => /\ launch.outcome \in FailureReasons
             /\ launch.killedFirst
             /\ launch.kills = 1
             /\ launch.proc # "running"
    /\ launch.outcome # "pending"
          => ~launch.timer /\ ~launch.dataListener /\ ~launch.exitListener
    /\ launch.outcome = "resolved" => launch.kills = 0

\* C14 witness: the launch failed on a port mismatch after earlier output, the
\* process was killed once and has since exited.
C14_Witness ==
    /\ launch.outcome = "PortMismatch"
    /\ launch.rejects = 1
    /\ launch.kills = 1
    /\ launch.ptr > 512
    /\ launch.proc = "exited"

\* the loop was left on a failed poll
PollFailed == raceResult \in {"error", "targetclose"}

\* C16: after a poll has failed no further poll is issued, and the bridge goes
\* on to Disposed (active false, 'dispose' emitted) without any dispose() call.
C16_FailureEndsBridge ==
    /\ [][PollFailed => (PollFailed' /\ Len(polls') = Len(polls))]_vars
    /\ PollFailed ~> (pc = "done" /\ ~active /\ disposeEmits = 1)

\* C16 witness: the first poll failed, no dispose() call was made, the bridge
\* is Disposed and the polls that were still possible were not issued.
C16_Witness ==
    /\ raceResult = "error"
    /\ disposeCalls = 0
    /\ pc = "done"
    /\ ~active
    /\ disposeEmits = 1
    /\ Len(polls) = 1

\* the loop can no longer be expected to deliver: a failed poll, a closed
\* target, a throwing listener, or all polls of the model used up
LoopStopped ==
    \/ PollFailed
    \/ ~remoteAlive
    \/ listenerThrew
    \/ Len(polls) = MaxPolls

Settled(ps) == {p \in DOMAIN ps : ps[p].st \in {"events", "null", "rejected"}}

\* C18: every poll settles at most once and its waiter closure runs at most
\* once; the registered waiter is exactly the one poll that is still waiting,
\* and the only timer left is the registered waiter's own, so no timeout
\* callback is left behind for a waiter that was cleared; a step that takes a
\* timer away clears that poll's waiter, settles that poll and touches no
\* other poll.
C18_WaiterClearedOnce ==
    /\ [](\A p \in DOMAIN polls :
             /\ polls[p].settles <= 1
             /\ polls[p].resumed <= 1
             /\ (polls[p].settles = 1) <=> (p \in Settled(polls))
             /\ (polls[p].st = "waiting") <=> (waiter = p)
             /\ (p \in timers) <=> (waiter = p))
    /\ [][\A p \in DOMAIN polls :
             (p \in timers /\ p \notin timers')
                => /\ waiter = p
                   /\ waiter' = 0
                   /\ polls'[p].settles = 1
                   /\ \A q \in DOMAIN polls : q # p => polls'[q] = polls[q]]_vars

\* C18 witness: the first poll's waiter was cleared by a wake, a later poll
\* registered a new waiter whose timer is the only one left, and afterwards a
\* third poll was settled by its timeout.
C18_Witness ==
    /\ Len(polls) = 3
    /\ polls[1].by = "wake" /\ polls[1].settles = 1 /\ polls[1].resumed = 1
    /\ polls[2].by = "timeout" /\ polls[2].st = "null"
    /\ waiter = 3
    /\ timers = {3}

\* C19: when the timeout callback of the registered waiter runs with events
\* queued, the poll resolves with all of them, the queue is emptied and the
\* waiter cleared; and a poll resolves with null only with the queue empty.
C19_DataWinsOverTimeout ==
    [][\A p \in DOMAIN polls :
          /\ (Timeout(p) /\ waiter = p /\ events # <<>>)
                => /\ polls'[p].st = "events"
                   /\ polls'[p].res = events
                   /\ events' = <<>>
                   /\ waiter' = 0
          /\ (polls[p].st # "null" /\ polls'[p].st = "null")
                => /\ events = <<>>
                   /\ events' = <<>>]_vars

\* C19 witness: a poll was settled by its timeout callback with two events
\* that were posted while it waited.
C19_Witness ==
    \E p \in DOMAIN polls :
        /\ polls[p].by = "timeout"
        /\ polls[p].st = "events"
        /\ Len(polls[p].res) = 2

\* C20: the waiter closure never ran with the queue empty, and a registered
\* waiter with events queued always has the coalesced wake pending.
C20_WaiterNeverResumedEmpty ==
    /\ ~waiterThrew
    /\ (waiter # 0 /\ events # <<>>) => (deferredNotify /\ wakesQueued = 1)

\* C20 witness: a waiter is registered, two events are queued behind it and
\* the one wake is pending.
C20_Witness ==
    /\ waiter # 0
    /\ Len(events) = 2
    /\ deferredNotify
    /\ wakesQueued = 1
====
